---- MODULE Spec2Model ----
(***************************************************************************)
(* A model of main.py, the sensorika.uz scraper API: the fetch helper      *)
(* get_soup, the card extractor parse_student_card, the three home-page    *)
(* listings, the two detail extractors and the /web* HTML variants.        *)
(*                                                                         *)
(* Strings the code takes apart (URLs, titles) are sequences of            *)
(* characters; a multi-letter element of such a sequence stands for a run  *)
(* of letters holding no '/', '-', digit, sign, underscore or blank.       *)
(* Optional values (Python's None) are sequences of length 0 or 1.         *)
(***************************************************************************)
EXTENDS Integers, Sequences, FiniteSets, TLC

VARIABLES pc, route, args, call, soup, acc, results, resp, log, item, rec

vars == <<pc, route, args, call, soup, acc, results, resp, log, item, rec>>

reqVars == <<pc, route, args, call, soup, acc, results, resp, log>>

cardVars == <<item, rec>>

(* ------------------------------ bounds --------------------------------- *)

MaxUrlLen == 4

MaxNodes == 3

MaxItems == 7

NReq == 2

(* ------------------------- Python primitives --------------------------- *)

None == <<>>

Some(x) == <<x>>

Digits == {"0", "1", "2", "3", "4", "5", "6", "7", "8", "9"}

DigitVal(c) ==
    CASE c = "0" -> 0 [] c = "1" -> 1 [] c = "2" -> 2 [] c = "3" -> 3
      [] c = "4" -> 4 [] c = "5" -> 5 [] c = "6" -> 6 [] c = "7" -> 7
      [] c = "8" -> 8 [] c = "9" -> 9

RECURSIVE DropWhileBlank(_)
DropWhileBlank(s) ==
    IF s # <<>> /\ Head(s) = " " THEN DropWhileBlank(Tail(s)) ELSE s

RECURSIVE DropEndBlank(_)
DropEndBlank(s) ==
    IF s # <<>> /\ s[Len(s)] = " "
    THEN DropEndBlank(SubSeq(s, 1, Len(s) - 1)) ELSE s

\* str.strip()
strip(s) == DropEndBlank(DropWhileBlank(s))

\* index of the first occurrence of c in s at or after position i; 0 if none
RECURSIVE IndexFrom(_, _, _)
IndexFrom(s, c, i) ==
    IF i > Len(s) THEN 0
    ELSE IF s[i] = c THEN i ELSE IndexFrom(s, c, i + 1)

\* str.split(sep): the list of the pieces of s between occurrences of sep
RECURSIVE split(_, _)
split(s, sep) ==
    LET k == IndexFrom(s, sep, 1) IN
    IF k = 0 THEN <<s>>
    ELSE <<SubSeq(s, 1, k - 1)>> \o split(SubSeq(s, k + 1, Len(s)), sep)

RECURSIVE DecimalValue(_)
DecimalValue(s) ==
    IF s = <<>> THEN 0
    ELSE 10 * DecimalValue(SubSeq(s, 1, Len(s) - 1)) + DigitVal(s[Len(s)])

IsDigit(c) == c \in Digits

\* the digits part of an int() literal: digits, single underscores between them
ValidDigits(s) ==
    /\ s # <<>>
    /\ \A i \in 1..Len(s) : s[i] \in Digits \cup {"_"}
    /\ s[1] \in Digits /\ s[Len(s)] \in Digits
    /\ \A i \in 1..(Len(s) - 1) : ~(s[i] = "_" /\ s[i + 1] = "_")

\* int(s): Some(n), or None when Python raises ValueError
int(s) ==
    LET t == strip(s)
        signed == t # <<>> /\ t[1] \in {"+", "-"}
        body == IF signed THEN Tail(t) ELSE t
        n == DecimalValue(SelectSeq(body, IsDigit))
    IN  IF ~ValidDigits(body) THEN None
        ELSE IF signed /\ t[1] = "-" THEN Some(0 - n) ELSE Some(n)

BASE_URL == <<"https://sensorika.uz">>

(* --------------------------- card extractor ---------------------------- *)

\* the id taken from the first path segment instead of the last
id_from_first_segment(url) == int(split(split(url, "/")[1], "-")[1])

\* int(url.split('/')[-1].split('-')[0]) under try/except (ValueError, IndexError)
id_from_url(url) ==
    LET segs == split(url, "/")
        last == segs[Len(segs)]
    IN  int(split(last, "-")[1])

NAME_FALLBACK == <<"Noma'lum">>

DESC_FALLBACK == <<"Tavsif mavjud emas">>

TITLE_FALLBACK == <<"Sarlavha mavjud emas">>

\* BASE_URL + img_tag['src'] if img_tag and img_tag.get('src') else None
image_url(img) ==
    IF img # None /\ img[1].src # None /\ img[1].src[1] # <<>>
    THEN Some(BASE_URL \o img[1].src[1]) ELSE None

\* A card node is summarised by what its four find() calls return:
\*   link, img : None or Some(attributes), title, desc : None or Some(text).
\* The result is [exc, val]: exc = "" and val = <<record>> on return,
\* exc = the exception's name and val = <<>> when the call raises.
KeyErrorOnMissingHref(it) == it.link # None /\ it.link[1].href = None

parse_student_card(it) ==
    IF KeyErrorOnMissingHref(it) THEN [exc |-> "KeyError", val |-> <<>>]
    ELSE
      LET url == IF it.link # None THEN it.link[1].href ELSE None
          student_id == IF url # None /\ url[1] # <<>>
                        THEN id_from_url(url[1]) ELSE None
      IN [exc |-> "",
          val |-> <<[id |-> student_id,
                     name |-> IF it.title # None THEN strip(it.title[1])
                              ELSE NAME_FALLBACK,
                     description |-> IF it.desc # None THEN strip(it.desc[1])
                                     ELSE DESC_FALLBACK,
                     url |-> url,
                     image_url |-> image_url(it.img)]>>]

\* one iteration of the loop of get_all_news over an a.top-item: the anchor's
\* own attributes are it.link[1], its top-title is it.title
news_item(it) ==
    IF it.link[1].href = None THEN [exc |-> "KeyError", val |-> <<>>]
    ELSE
      LET url == it.link[1].href IN
      [exc |-> "",
       val |-> <<[id |-> id_from_url(url[1]),
                  name |-> IF it.title # None THEN strip(it.title[1])
                           ELSE TITLE_FALLBACK,
                  description |-> <<>>,
                  url |-> url,
                  image_url |-> image_url(it.img)]>>]

(* --------------------------- document tree ----------------------------- *)
(* A home page is the sequence of its elements in document order; d is an  *)
(* element's depth, so the descendants of element i are the run of         *)
(* elements after i that lie deeper than i.  Every element carries one     *)
(* class, at most one text child, and - for a card - the summary the card  *)
(* extractor reads.  Whitespace-only text between elements is left out.    *)

NoCard == [link |-> None, title |-> None, desc |-> None, img |-> None]

NEWS_TITLE == "YANGILIKLAR"

FREELANCER_PHRASE == "BIZ FRILANSINGDA DAROMAD QILYAPMIZ!"

\* "BIZ FRILANSINGDA DAROMAD QILYAPMIZ!" in t, for the texts the pages hold
ContainsPhrase(t) ==
    t \in {FREELANCER_PHRASE, "TOP: BIZ FRILANSINGDA DAROMAD QILYAPMIZ! >>"}

Descendants(doc, i) ==
    IF i = 0 THEN 1..Len(doc)
    ELSE {j \in (i + 1)..Len(doc) : \A k \in (i + 1)..j : doc[k].d > doc[i].d}

Children(doc, i) == {j \in Descendants(doc, i) : doc[j].d = doc[i].d + 1}

\* tag.parents: the proper ancestors of i (i itself is never among them)
Parents(doc, i) == {j \in 1..(i - 1) : i \in Descendants(doc, j)}

Min(S) == CHOOSE x \in S : \A y \in S : x <= y

Max(S) == CHOOSE x \in S : \A y \in S : x >= y

\* the elements of a set of positions, in document order
RECURSIVE InOrder(_)
InOrder(S) ==
    IF S = {} THEN <<>> ELSE <<Min(S)>> \o InOrder(S \ {Min(S)})

HasClass(n, tg, c) == n.tag = tg /\ n.cls = c

\* scope.find_all(tg, class_=c): every descendant, in document order
find_all(doc, i, tg, c) ==
    InOrder({j \in Descendants(doc, i) : HasClass(doc[j], tg, c)})

\* tag.find_parent(tg, class_=c): the nearest proper ancestor, None if none
find_parent(doc, i, tg, c) ==
    LET S == {j \in Parents(doc, i) : HasClass(doc[j], tg, c)}
    IN  IF S = {} THEN None ELSE Some(Max(S))

\* tag.string: the only child if it is text, the only child's .string if it
\* is an element, None otherwise
RECURSIVE string(_, _)
string(doc, i) ==
    LET kids == Children(doc, i) IN
    IF doc[i].text # "" /\ kids = {} THEN Some(doc[i].text)
    ELSE IF doc[i].text = "" /\ Cardinality(kids) = 1
         THEN string(doc, CHOOSE j \in kids : TRUE)
         ELSE None

\* phrase in tag.text: tag.text joins the text of the element and of all
\* its descendants (a phrase split across elements is not modelled)
TextContainsPhrase(doc, i) ==
    \E j \in {i} \cup Descendants(doc, i) : ContainsPhrase(doc[j].text)

(* ------------------------- results of a call --------------------------- *)

Ok(v) == [st |-> "ok", code |-> 200, detail |-> <<>>, val |-> v]

HTTPException(status_code, detail) ==
    [st |-> "http", code |-> status_code, detail |-> detail, val |-> <<>>]

\* an exception that is no HTTPException (KeyError, AttributeError)
Raised(name) == [st |-> "exc", code |-> 500, detail |-> <<name>>, val |-> <<>>]

\* the records of the cards at positions ps, or the first exception raised
RECURSIVE MapCards(_, _, _)
MapCards(doc, ps, isNews) ==
    IF ps = <<>> THEN Ok(<<>>)
    ELSE LET r == IF isNews THEN news_item(doc[Head(ps)].card)
                  ELSE parse_student_card(doc[Head(ps)].card)
             rest == MapCards(doc, Tail(ps), isNews)
         IN  IF r.exc # "" THEN Raised(r.exc)
             ELSE IF rest.st # "ok" THEN rest
             ELSE Ok(r.val \o rest.val)

RECURSIVE ItemsOfSections(_, _)
ItemsOfSections(doc, sections) ==
    IF sections = <<>> THEN <<>>
    ELSE find_all(doc, Head(sections), "div", "short-item")
         \o ItemsOfSections(doc, Tail(sections))

(* --------------------------- listing locators -------------------------- *)

\* the students loop over the set of items, each taken once
students_loop_dedup(doc) ==
    LET student_sections == find_all(doc, 0, "div", "short-items")
        its == ItemsOfSections(doc, student_sections)
    IN  MapCards(doc, InOrder({its[i] : i \in 1..Len(its)}), FALSE)

\* get_all_students, lines 83-88: the loop that fills `students`
students_loop(doc) ==
    LET student_sections == find_all(doc, 0, "div", "short-items")
    IN  MapCards(doc, ItemsOfSections(doc, student_sections), FALSE)

\* soup.find("div", class_="sect-title", string="YANGILIKLAR")
find_news_section(doc) ==
    LET S == {j \in 1..Len(doc) : /\ HasClass(doc[j], "div", "sect-title")
                                  /\ string(doc, j) = Some(NEWS_TITLE)}
    IN  IF S = {} THEN None ELSE Some(Min(S))

\* get_all_news, lines 142-164
news_loop(doc) ==
    LET news_section == find_news_section(doc) IN
    IF news_section = None
    THEN HTTPException(404, <<"Yangiliklar bo'limi topilmadi.">>)
    ELSE LET col == find_parent(doc, news_section[1], "div", "sect-col") IN
         IF col = None THEN Raised("AttributeError")
         ELSE MapCards(doc, find_all(doc, col[1], "a", "top-item"), TRUE)

\* soup.find(lambda tag: tag.name == 'div' and PHRASE in tag.text)
find_freelancer_header(doc) ==
    LET S == {j \in 1..Len(doc) : doc[j].tag = "div" /\ TextContainsPhrase(doc, j)}
    IN  IF S = {} THEN None ELSE Some(Min(S))

\* get_freelancers, lines 209-218
freelancers_loop(doc) ==
    LET freelancer_header == find_freelancer_header(doc) IN
    IF freelancer_header = None
    THEN HTTPException(404, <<"Frilanserlar bo'limi topilmadi.">>)
    ELSE LET freelancer_section ==
                 find_parent(doc, freelancer_header[1], "div", "sect") IN
         IF freelancer_section = None THEN Raised("AttributeError")
         ELSE MapCards(doc, find_all(doc, freelancer_section[1], "div", "short-item"),
                       FALSE)

EMPTY_DETAIL(op) ==
    CASE op = "students" -> <<"Hech qanday o'quvchi topilmadi.">>
      [] op = "news" -> <<"Hech qanday yangilik topilmadi.">>
      [] op = "freelancers" -> <<"Hech qanday frilanser topilmadi.">>

\* a listing that returns without its final check
listing_return_unchecked(op, records) == Ok(records)

\* the end of each listing: if not records: raise HTTPException(404); return records
listing_return(op, records) ==
    IF records = <<>> THEN HTTPException(404, EMPTY_DETAIL(op)) ELSE Ok(records)

(* --------------------------- detail extractors ------------------------- *)
(* A detail page is summarised by what the extractors look up in it:       *)
(*   article : whether soup.find("article", class_="full") finds a root,   *)
(*   h1      : None or Some(text of the first h1),                         *)
(*   info    : the article's direct child divs, each [key, value] with the *)
(*             text of its first div and first span (None when absent),    *)
(*   fdesc   : None or Some([divs, imgs]): the texts of the container's    *)
(*             direct child divs and the src of every img inside it,      *)
(*   fmessage: None or Some([a]) with a = None or Some([href]).            *)

\* str.lower() on the letters the labels hold
lower(c) == CASE c = "Y" -> "y" [] c = "O" -> "o" [] OTHER -> c

RECURSIVE normalize_key(_)
\* key_tag.text.strip().lower().replace("'", "").replace(" ", "_"), applied
\* to an already stripped text
normalize_key(s) ==
    IF s = <<>> THEN <<>>
    ELSE LET c == lower(Head(s)) IN
         (IF c = "'" THEN <<>> ELSE IF c = " " THEN <<"_">> ELSE <<c>>)
         \o normalize_key(Tail(s))

\* details[key] = value on a dict kept as the sequence of its <<key, value>>
\* pairs in insertion order
dict_set(details, key, value) ==
    IF \E i \in 1..Len(details) : details[i][1] = key
    THEN [i \in 1..Len(details) |->
            IF details[i][1] = key THEN <<key, value>> ELSE details[i]]
    ELSE Append(details, <<key, value>>)

RECURSIVE collect_details(_, _)
collect_details(info, details) ==
    IF info = <<>> THEN details
    ELSE LET it == Head(info) IN
         collect_details(Tail(info),
            IF it.key # None /\ it.value # None
            THEN dict_set(details, normalize_key(strip(it.key[1])),
                          strip(it.value[1]))
            ELSE details)

\* [BASE_URL + img['src'] for img in imgs]: Ok(list), or KeyError at the
\* first img that has no src
RECURSIVE image_list(_)
image_list(imgs) ==
    IF imgs = <<>> THEN Ok(<<>>)
    ELSE LET rest == image_list(Tail(imgs)) IN
         IF Head(imgs).src = None THEN Raised("KeyError")
         ELSE IF rest.st # "ok" THEN rest
         ELSE Ok(<<BASE_URL \o Head(imgs).src[1]>> \o rest.val)

\* the image list degrading to [] when the description container is absent
student_images_graceful(page) ==
    IF page.fdesc = None THEN Ok(<<>>) ELSE image_list(page.fdesc[1].imgs)

\* line 120: [BASE_URL + img['src'] for img in
\*            full_article.find("div", class_="fdesc").find_all("img")]
student_images(page) ==
    IF page.fdesc = None THEN Raised("AttributeError")
    ELSE image_list(page.fdesc[1].imgs)

\* get_student_by_id, lines 104-134
student_detail(page, student_id, student_url) ==
    IF ~page.article
    THEN HTTPException(404, <<"ID ", student_id, " ga ega o'quvchi topilmadi.">>)
    ELSE
      LET name == IF page.h1 # None THEN strip(page.h1[1]) ELSE NAME_FALLBACK
          details == collect_details(page.info, <<>>)
          images == student_images(page)
          tag == page.fmessage
          hasLink == tag # None /\ tag[1].a # None
      IN  IF images.st # "ok" THEN images
          ELSE IF hasLink /\ tag[1].a[1].href = None THEN Raised("KeyError")
          ELSE Ok(<<[id |-> student_id,
                     name |-> name,
                     details |-> details,
                     freelance_platform |->
                        IF hasLink THEN tag[1].a[1].href ELSE None,
                     images |-> images.val,
                     source_url |-> student_url]>>)

\* "\n".join(filter(None, text_parts))
RECURSIVE join_lines(_)
join_lines(parts) ==
    IF parts = <<>> THEN <<>>
    ELSE IF Len(parts) = 1 THEN Head(parts)
    ELSE Head(parts) \o <<"\n">> \o join_lines(Tail(parts))

NonEmpty(s) == s # <<>>

\* get_news_by_id, lines 180-201
news_detail(page, news_id, news_url) ==
    IF ~page.article
    THEN HTTPException(404, <<"ID ", news_id, " ga ega yangilik topilmadi.">>)
    ELSE
      LET title == IF page.h1 # None THEN strip(page.h1[1]) ELSE TITLE_FALLBACK
          content_div == page.fdesc
          text_parts == IF content_div = None THEN <<>>
                        ELSE [i \in 1..Len(content_div[1].divs) |->
                                 strip(content_div[1].divs[i])]
          content_text == IF content_div = None THEN <<>>
                          ELSE join_lines(SelectSeq(text_parts, NonEmpty))
          images == IF content_div = None THEN Ok(<<>>)
                    ELSE image_list(content_div[1].imgs)
      IN  IF images.st # "ok" THEN images
          ELSE Ok(<<[id |-> news_id,
                     title |-> title,
                     content |-> content_text,
                     images |-> images.val,
                     source_url |-> news_url]>>)

(* ------------------------------ routes --------------------------------- *)

JsonRoutes == {"/students", "/students/{id}", "/news", "/news/{id}", "/freelancers"}

WebRoutes == {"/web", "/web/students", "/web/students/{id}", "/web/news",
              "/web/news/{id}", "/web/freelancers"}

Routes == {"/"} \cup JsonRoutes \cup WebRoutes

ListingOps == {"students", "news", "freelancers"}

\* the operations a route's handler calls, in the order it calls them
OpsOf(rt) ==
    CASE rt \in {"/students", "/web/students"} -> <<"students">>
      [] rt \in {"/news", "/web/news"} -> <<"news">>
      [] rt \in {"/freelancers", "/web/freelancers"} -> <<"freelancers">>
      [] rt \in {"/students/{id}", "/web/students/{id}"} -> <<"student">>
      [] rt \in {"/news/{id}", "/web/news/{id}"} -> <<"newsdetail">>
      [] rt = "/web" -> <<"students", "news", "freelancers">>
      [] OTHER -> <<>>

Template(rt) ==
    CASE rt = "/web" -> "index.html"
      [] rt = "/web/students" -> "students.html"
      [] rt = "/web/students/{id}" -> "student_detail.html"
      [] rt = "/web/news" -> "news.html"
      [] rt = "/web/news/{id}" -> "news_detail.html"
      [] rt = "/web/freelancers" -> "freelancers.html"
      [] OTHER -> ""

Response(status, kind, tmpl, body, error) ==
    [status |-> status, kind |-> kind, tmpl |-> tmpl, body |-> body, error |-> error]

NoResponse == Response(0, "", "", <<>>, <<>>)

\* read_root
read_root == Response(200, "json", "", <<"message", "docs_url">>, <<>>)

HOME_LIMIT == 6

\* list[:n]
Take(list, n) == SubSeq(list, 1, IF Len(list) < n THEN Len(list) ELSE n)

\* web_home, lines 234-239: the page rendered when the three listings returned
web_home_page(students, news, freelancers) ==
    Response(200, "html", "index.html",
             <<Take(students, HOME_LIMIT), Take(news, HOME_LIMIT),
               Take(freelancers, HOME_LIMIT)>>, <<>>)

\* the error page of web_home without its error message
web_home_error_silent == Response(200, "html", "index.html", <<<<>>, <<>>, <<>>>>, <<>>)

\* web_home, lines 240-247: the page rendered on an HTTPException
web_home_error ==
    Response(200, "html", "index.html", <<<<>>, <<>>, <<>>>>,
             <<"Ma'lumotlarni yuklashda xatolik yuz berdi.">>)

\* the except HTTPException branch of the other /web routes: the page with
\* empty (or None) data and error = str(e.detail)
web_error_page(rt, e) == Response(200, "html", Template(rt), <<>>, e.detail)

\* how a handler's exception ends the request: the /web routes catch
\* HTTPException only; the framework turns an HTTPException into a response
\* with its status code and any other exception into a 500
OnException(rt, e) ==
    IF e.st = "http"
    THEN IF rt = "/web" THEN web_home_error
         ELSE IF rt \in WebRoutes THEN web_error_page(rt, e)
         ELSE Response(e.code, "error", "", <<>>, e.detail)
    ELSE Response(500, "crash", "", <<>>, e.detail)

\* how a handler's return value ends the request
OnReturn(rt, rs) ==
    IF rt = "/web" THEN web_home_page(rs[1], rs[2], rs[3])
    ELSE IF rt \in WebRoutes
         THEN Response(200, "html", Template(rt), rs[1], <<>>)
         ELSE Response(200, "json", "", rs[1], <<>>)

(* ---------------------------- fetched pages ---------------------------- *)

Node(tag, cls, text, card) == [tag |-> tag, cls |-> cls, text |-> text, card |-> card]

At(d, n) == [d |-> d, tag |-> n.tag, cls |-> n.cls, text |-> n.text, card |-> n.card]

Card(href) == [link |-> Some([href |-> href]), title |-> Some(<<" ", "J", "a", " ">>),
               desc |-> None, img |-> None]

CardA == Card(Some(<<"/", "s", "/", "1", "-", "a">>))

CardB == Card(Some(<<"/", "s", "/", "2", "-", "b">>))

CardNoHref == Card(None)

\* the j-th card of a wide page; its id is j
Numbered(j) ==
    Card(Some(<<"/", "s", "/">> \o
              (IF j >= 10 THEN <<"1">> ELSE <<>>) \o
              <<CHOOSE c \in Digits : DigitVal(c) = j % 10>> \o <<"-", "x">>))

N_plain == Node("div", "", "", NoCard)

N_group == Node("div", "short-items", "", NoCard)

N_item(c) == Node("div", "short-item", "", c)

N_title(t) == Node("div", "sect-title", t, NoCard)

N_col == Node("div", "sect-col", "", NoCard)

N_top(c) == Node("a", "top-item", "", c)

N_span(t) == Node("span", "", t, NoCard)

N_sect == Node("div", "sect", "", NoCard)

N_text(tag, t) == Node(tag, "", t, NoCard)

NodeChoices(op) ==
    CASE op = "students" ->
           {N_group, N_plain, N_item(CardA), N_item(CardB), N_item(CardNoHref)}
      [] op = "news" ->
           {N_title(NEWS_TITLE), N_title("Yangiliklar"), N_span(NEWS_TITLE),
            N_col, N_top(CardA), N_top(CardNoHref)}
      [] op = "freelancers" ->
           {N_sect, N_plain, N_text("div", FREELANCER_PHRASE),
            N_text("h2", FREELANCER_PHRASE), N_item(CardA)}

\* the depth sequences of the documents of n elements
DepthSeqs(n) ==
    {s \in [1..n -> 1..n] :
        /\ s[1] = 1
        /\ \A i \in 1..(n - 1) : s[i + 1] <= s[i] + 1}

TreesOf(op, n) ==
    IF n = 0 THEN {<<>>}
    ELSE {[i \in 1..n |-> At(ds[i], ns[i])] :
             ds \in DepthSeqs(n), ns \in [1..n -> NodeChoices(op)]}

TreePages(op) == UNION {TreesOf(op, n) : n \in 0..MaxNodes}

\* a page holding one well-formed section of k entries
WidePage(op, k) ==
    CASE op = "students" ->
           <<At(1, N_group)>> \o [j \in 1..k |-> At(2, N_item(Numbered(j)))]
      [] op = "news" ->
           <<At(1, N_col), At(2, N_title(NEWS_TITLE))>>
           \o [j \in 1..k |-> At(2, N_top(Numbered(j)))]
      [] op = "freelancers" ->
           <<At(1, N_plain), At(2, N_sect), At(3, N_text("div", FREELANCER_PHRASE))>>
           \o [j \in 1..k |-> At(3, N_item(Numbered(j)))]

WidePages(op) ==
    {WidePage(op, k) : k \in 0..MaxItems}
    \cup {<<>>, <<At(1, N_title(NEWS_TITLE))>>, <<At(1, N_item(CardNoHref))>>}

SmallPages(op) == {WidePage(op, 0), WidePage(op, 2)}

NoPage == [article |-> FALSE, h1 |-> None, info |-> <<>>, fdesc |-> None,
           fmessage |-> None]

InfoChoices ==
    {<<>>,
     <<[key |-> Some(<<" ", "Y", "o", "'", " ", "s">>), value |-> Some(<<"9", " ">>)]>>,
     <<[key |-> Some(<<"Y">>), value |-> None]>>}

FdescChoices ==
    {None,
     Some([divs |-> <<>>, imgs |-> <<>>]),
     Some([divs |-> <<<<" ", "t", " ">>, <<" ">>, <<"u">>>>,
           imgs |-> <<[src |-> Some(<<"/i.png">>)]>>]),
     Some([divs |-> <<>>, imgs |-> <<[src |-> None]>>])}

FmessageChoices ==
    {None, Some([a |-> None]), Some([a |-> Some([href |-> None])]),
     Some([a |-> Some([href |-> Some(<<"https://kwork.ru/u">>)])])}

DetailPages ==
    [article : BOOLEAN, h1 : {None, Some(<<" ", "A", "l", "i">>)},
     info : InfoChoices, fdesc : FdescChoices, fmessage : FmessageChoices]

Document(nodes, page) == [nodes |-> nodes, page |-> page]

NoDocument == Document(<<>>, NoPage)

\* the documents a fetch may bring, by the operation that asked for it
PagesFor(rt, op, prof) ==
    IF op \in ListingOps
    THEN {Document(n, NoPage) :
            n \in IF prof = "small" THEN SmallPages(op)
                  ELSE IF rt = "/web" THEN WidePages(op)
                  ELSE TreePages(op) \cup WidePages(op)}
    ELSE {Document(<<>>, p) :
            p \in IF prof = "small" THEN {NoPage} ELSE DetailPages}

NoArgs == [id |-> 0, url |-> <<>>]

ArgsOf(rt) ==
    IF rt \in {"/students/{id}", "/web/students/{id}", "/news/{id}", "/web/news/{id}"}
    THEN [id : {7, 2212}, url : {<<"https://sensorika.uz/x/7-a.html">>}]
    ELSE {NoArgs}

(* ------------------------------ requests ------------------------------- *)

Reqs == 1..NReq

\* locals kept at module level, shared by all requests
frame_shared(r) == 1

\* every call of a handler has its own locals (soup, students, news_list,
\* freelancers): the locals of request r live in frame r
frame(r) == r

\* the operation the handler of request r is in
Op(r) == OpsOf(route[r])[call[r]]

\* get_soup without raise_for_status and with the error swallowed
get_soup_swallow(out) == Ok(out.doc)

\* get_soup: requests.get and raise_for_status under except RequestException
get_soup(out) ==
    IF out.status = "ok" THEN Ok(out.doc)
    ELSE HTTPException(503, <<"Saytga ulanishda xatolik: ", out.status>>)

FetchOutcomes(rt, op, prof) ==
    {[status |-> "ok", doc |-> d] : d \in PagesFor(rt, op, prof)}
    \cup {[status |-> st, doc |-> NoDocument] : st \in {"ConnectionError", "HTTPError"}}

NoOutcome == [status |-> "", doc |-> NoDocument]

\* the history of a request: its fetches (with what each brought) and its
\* extraction steps, in the order they ran
LogEntry(ev, op, out) == [ev |-> ev, op |-> op, out |-> out]

\* what the operation extracts from the fetched document, up to its final check
extract(op, doc, a) ==
    CASE op = "students" -> students_loop(doc.nodes)
      [] op = "news" -> news_loop(doc.nodes)
      [] op = "freelancers" -> freelancers_loop(doc.nodes)
      [] op = "student" -> student_detail(doc.page, a.id, a.url)
      [] op = "newsdetail" -> news_detail(doc.page, a.id, a.url)

\* the operation's last statements
return_of(op, value) ==
    IF op \in ListingOps THEN listing_return(op, value) ELSE Ok(value)

InitReqs ==
    /\ pc = [r \in Reqs |-> "idle"]
    /\ route = [r \in Reqs |-> "/"]
    /\ args = [r \in Reqs |-> NoArgs]
    /\ call = [r \in Reqs |-> 1]
    /\ soup = [r \in Reqs |-> NoDocument]
    /\ acc = [r \in Reqs |-> <<>>]
    /\ results = [r \in Reqs |-> <<>>]
    /\ resp = [r \in Reqs |-> NoResponse]
    /\ log = [r \in Reqs |-> <<>>]

\* a request arrives and is routed to its handler
Start(r, rts) ==
    /\ pc[r] = "idle"
    /\ \E rt \in rts : \E a \in ArgsOf(rt) :
         /\ route' = [route EXCEPT ![r] = rt]
         /\ args' = [args EXCEPT ![r] = a]
         /\ pc' = [pc EXCEPT ![r] = IF rt = "/" THEN "root" ELSE "fetch"]
    /\ UNCHANGED <<call, soup, acc, results, resp, log, cardVars>>

ReadRoot(r) ==
    /\ pc[r] = "root"
    /\ resp' = [resp EXCEPT ![r] = read_root]
    /\ pc' = [pc EXCEPT ![r] = "done"]
    /\ UNCHANGED <<route, args, call, soup, acc, results, log, cardVars>>

\* soup = get_soup(...)
GetSoup(r, prof) ==
    /\ pc[r] = "fetch"
    /\ \E out \in FetchOutcomes(route[r], Op(r), prof) :
         LET res == get_soup(out) IN
         /\ log' = [log EXCEPT ![r] = Append(@, LogEntry("fetch", Op(r), out))]
         /\ soup' = IF res.st = "ok" THEN [soup EXCEPT ![frame(r)] = res.val]
                    ELSE soup
         /\ pc' = [pc EXCEPT ![r] = IF res.st = "ok" THEN "extract" ELSE "done"]
         /\ resp' = IF res.st = "ok" THEN resp
                    ELSE [resp EXCEPT ![r] = OnException(route[r], res)]
    /\ UNCHANGED <<route, args, call, acc, results, cardVars>>

\* the body of the operation between the fetch and its final check
Extract(r) ==
    /\ pc[r] = "extract"
    /\ LET res == extract(Op(r), soup[frame(r)], args[r]) IN
         /\ log' = [log EXCEPT ![r] = Append(@, LogEntry("extract", Op(r), NoOutcome))]
         /\ acc' = IF res.st = "ok" THEN [acc EXCEPT ![frame(r)] = res.val]
                   ELSE acc
         /\ pc' = [pc EXCEPT ![r] = IF res.st = "ok" THEN "return" ELSE "done"]
         /\ resp' = IF res.st = "ok" THEN resp
                    ELSE [resp EXCEPT ![r] = OnException(route[r], res)]
    /\ UNCHANGED <<route, args, call, soup, results, cardVars>>

\* the operation's final check and return; the handler goes on to its next
\* call or to its response
Return(r) ==
    /\ pc[r] = "return"
    /\ LET res == return_of(Op(r), acc[frame(r)])
           rs == Append(results[r], res.val)
           last == call[r] = Len(OpsOf(route[r]))
       IN
         /\ results' = IF res.st = "ok" THEN [results EXCEPT ![r] = rs] ELSE results
         /\ call' = IF res.st = "ok" /\ ~last THEN [call EXCEPT ![r] = @ + 1] ELSE call
         /\ pc' = [pc EXCEPT ![r] = IF res.st = "ok" /\ ~last THEN "fetch" ELSE "done"]
         /\ resp' = IF res.st # "ok"
                    THEN [resp EXCEPT ![r] = OnException(route[r], res)]
                    ELSE IF last THEN [resp EXCEPT ![r] = OnReturn(route[r], rs)]
                    ELSE resp
    /\ UNCHANGED <<route, args, soup, acc, log, cardVars>>

Step(r, rts, prof) ==
    \/ Start(r, rts)
    \/ ReadRoot(r)
    \/ GetSoup(r, prof)
    \/ Extract(r)
    \/ Return(r)

(* ----------------------------- card cases ------------------------------ *)

UrlChars == {"/", "-", "1", "2", "a"}

BoundedUrls == UNION {[1..n -> UrlChars] : n \in 0..MaxUrlLen}

Example2212 ==
    <<"https:", "/", "/", "sensorika.uz", "/", "students", "/",
      "kompyuter", "-", "savodxonligi", "/",
      "2", "2", "1", "2", "-", "sevinova", "-", "jasmina.html">>

ExampleNoNumber == <<"/", "students", "/", "abc", "-", "no", "-", "number.html">>

ExampleUrls ==
    {Example2212, ExampleNoNumber,
     <<"/", "+", "7", "-", "a">>, <<"/", " ", "7", " ", "-", "a">>,
     <<"/", "1", "_", "0", "-", "a">>, <<"/", "_", "1", "-", "a">>,
     <<"/", "4", "2">>, <<"/", "0", "0", "7", "-">>, <<"1", "2", "/">>}

Urls == BoundedUrls \cup ExampleUrls

CardNodes ==
    [link : {None, Some([href |-> None])} \cup {Some([href |-> Some(u)]) : u \in Urls},
     title : {None, Some(<<" ", "J", "a", " ">>)},
     desc : {None, Some(<<"d">>)},
     img : {None, Some([src |-> None]), Some([src |-> Some(<<>>)]),
            Some([src |-> Some(<<"/", "i.png">>)])}]

NoResult == [exc |-> "", val |-> <<>>]

InitCard ==
    /\ item \in CardNodes
    /\ rec = [by |-> "", res |-> NoResult]

\* parse_student_card(item)
ParseCard ==
    /\ rec.by = ""
    /\ rec' = [by |-> "card", res |-> parse_student_card(item)]
    /\ UNCHANGED <<item, reqVars>>

\* the loop body of get_all_news on an a.top-item with the same attributes
ParseNewsItem ==
    /\ rec.by = ""
    /\ item.link # None
    /\ rec' = [by |-> "news", res |-> news_item(item)]
    /\ UNCHANGED <<item, reqVars>>

(* --------------------------- specifications ---------------------------- *)

\* one request, any route, any page
Init ==
    /\ InitReqs
    /\ item = NoCard
    /\ rec = [by |-> "", res |-> NoResult]

Next == Step(1, Routes, "full")

Spec == Init /\ [][Next]_vars

\* requests served concurrently
ConcRoutes == {"/", "/students", "/news", "/web/students", "/web"}

NextConc == \E r \in Reqs : Step(r, ConcRoutes, "small")

SpecConc == Init /\ [][NextConc]_vars

\* the card extractor and the news loop body on one node
InitCards == InitReqs /\ InitCard

NextCard == ParseCard \/ ParseNewsItem

SpecCard == InitCards /\ [][NextCard]_vars

(* ------------------------------ properties ---------------------------- *)

Done(r) == pc[r] = "done"

\* the extraction step of request r ran (so its fetch had succeeded)
Extracted(r) == \E i \in 1..Len(log[r]) : log[r][i].ev = "extract"

Fetches(r) == SelectSeq(log[r], LAMBDA e : e.ev = "fetch")

FailedFetch(r) == \E i \in 1..Len(log[r]) :
                     log[r][i].ev = "fetch" /\ log[r][i].out.status # "ok"

\* the home page the (only) listing of request r worked on
Home(r) == soup[frame(r)].nodes

IsGroup(n) == HasClass(n, "div", "short-items")

IsItem(n) == HasClass(n, "div", "short-item")

IsTop(n) == HasClass(n, "a", "top-item")

\* the heading the news locator finds, and its enclosing column
Heading(doc) == find_news_section(doc)

Column(doc) == find_parent(doc, Heading(doc)[1], "div", "sect-col")

\* the div the freelancers locator finds, and its enclosing section
PhraseDiv(doc) == find_freelancer_header(doc)

Section(doc) == find_parent(doc, PhraseDiv(doc)[1], "div", "sect")

\* a listing's section is located and holds no item
LocatedEmpty(op, doc) ==
    CASE op = "students" ->
           ~\E j \in 1..Len(doc) : \E g \in Parents(doc, j) :
                IsItem(doc[j]) /\ IsGroup(doc[g])
      [] op = "news" ->
           /\ Heading(doc) # None
           /\ Column(doc) # None
           /\ ~\E j \in Descendants(doc, Column(doc)[1]) : IsTop(doc[j])
      [] op = "freelancers" ->
           /\ PhraseDiv(doc) # None
           /\ Section(doc) # None
           /\ ~\E j \in Descendants(doc, Section(doc)[1]) : IsItem(doc[j])

\* C1: a JSON listing call that ends in success returns at least one record,
\* and a call whose located section yields zero items (for /students also a
\* page with no short-items group) ends with a 404 error, never an empty list.
C1_NoEmptySuccess ==
    \A r \in Reqs :
      (Done(r) /\ route[r] \in {"/students", "/news", "/freelancers"}) =>
        /\ resp[r].status = 200 => (resp[r].kind = "json" /\ Len(resp[r].body) >= 1)
        /\ (Extracted(r) /\ LocatedEmpty(Op(r), Home(r))) =>
              (resp[r].status = 404 /\ resp[r].kind = "error" /\ resp[r].body = <<>>)

C1_Witness ==
    /\ Done(1) /\ route[1] = "/news" /\ Extracted(1)
    /\ LocatedEmpty("news", Home(1))
    /\ resp[1].status = 404

\* the anchor of a listing's section is missing, as C2 lists the cases
AnchorMissing(op, doc) ==
    CASE op = "news" -> Heading(doc) = None \/ Column(doc) = None
      [] op = "freelancers" -> PhraseDiv(doc) = None \/ Section(doc) = None

\* C2: when the section anchor is missing (/news: no div.sect-title whose text
\* is the heading literal, or the heading has no enclosing sect-col; /freelancers:
\* no div holds the phrase, or the div found has no enclosing sect), the listing
\* call ends with a 404 error and never with an uncaught exception.
C2_AnchorMissingIs404 ==
    \A r \in Reqs :
      (Done(r) /\ route[r] \in {"/news", "/freelancers"} /\ Extracted(r)
        /\ AnchorMissing(Op(r), Home(r))) =>
          (resp[r].status = 404 /\ resp[r].kind = "error")

\* C3: in a JSON endpoint a failed fetch ends the request with a 503 error
\* after exactly one fetch attempt: no retry, no extraction step afterwards,
\* no record returned.
C3_FailedFetchIs503 ==
    \A r \in Reqs :
      (route[r] \in JsonRoutes /\ FailedFetch(r)) =>
        /\ Done(r)
        /\ Len(log[r]) = 1
        /\ resp[r].status = 503 /\ resp[r].kind = "error" /\ resp[r].body = <<>>

C3_Witness ==
    /\ route[1] = "/news/{id}" /\ FailedFetch(1) /\ Done(1)
    /\ log[1][1].out.status = "HTTPError"
    /\ resp[1].status = 503

\* C4: every /web* request ends with a rendered HTML page and never with an
\* HTTP error status, whatever the underlying listing or detail operation did.
C4_WebAlwaysRenders ==
    \A r \in Reqs :
      (Done(r) /\ route[r] \in WebRoutes) =>
        (resp[r].kind = "html" /\ resp[r].status = 200)

\* the part of the last '/'-separated segment of u before its first hyphen
LastSlash(u) == IF \E i \in 1..Len(u) : u[i] = "/"
                THEN Max({i \in 1..Len(u) : u[i] = "/"}) ELSE 0

PrefixEnd(u) ==
    LET H == {i \in (LastSlash(u) + 1)..Len(u) : u[i] = "-"}
    IN  IF H = {} THEN Len(u) ELSE Min(H) - 1

IdPrefix(u) == SubSeq(u, LastSlash(u) + 1, PrefixEnd(u))

AllDigits(s) == s # <<>> /\ \A i \in 1..Len(s) : s[i] \in Digits

\* blanks, signs and underscores, which int() treats specially
Quirk(s) == \E i \in 1..Len(s) : s[i] \in {" ", "+", "_"}

IdAsClaimed(urlOpt, id) ==
    IF urlOpt = None THEN id = None
    ELSE LET pre == IdPrefix(urlOpt[1]) IN
         /\ AllDigits(pre) => id = Some(DecimalValue(pre))
         /\ (~AllDigits(pre) /\ ~Quirk(pre)) => id = None
         /\ id = None \/ (Len(id) = 1 /\ id[1] \in Nat)

UrlOfItem == IF item.link = None THEN None ELSE item.link[1].href

C6_CardNeverRaises ==
    rec.by = "card" =>
        /\ rec.res.exc = ""
        /\ Len(rec.res.val) = 1
        /\ item.link = None => (rec.res.val[1].url = None /\ rec.res.val[1].id = None)
        /\ item.title = None => rec.res.val[1].name = NAME_FALLBACK
        /\ item.desc = None => rec.res.val[1].description = DESC_FALLBACK
        /\ rec.res.val[1].image_url =
             (IF item.img # None /\ item.img[1].src \notin {None, Some(<<>>)}
              THEN Some(BASE_URL \o item.img[1].src[1]) ELSE None)

\* the detail page request r fetched
Page(r) == soup[frame(r)].page

\* C7: on a detail page with the full-article root but without the fdesc
\* container the student detail call fails with an error and returns no
\* record, while the news detail call succeeds with content "" and no images;
\* without the article root both end with a 404 error.
C7_MissingFdesc ==
    \A r \in Reqs :
      (Done(r) /\ Extracted(r) /\ route[r] \in {"/students/{id}", "/news/{id}"}) =>
        /\ ~Page(r).article => (resp[r].status = 404 /\ resp[r].kind = "error")
        /\ (Page(r).article /\ Page(r).fdesc = None /\ route[r] = "/students/{id}") =>
              (resp[r].status >= 400 /\ resp[r].kind # "json" /\ resp[r].body = <<>>)
        /\ (Page(r).article /\ Page(r).fdesc = None /\ route[r] = "/news/{id}") =>
              /\ resp[r].status = 200 /\ resp[r].kind = "json"
              /\ Len(resp[r].body) = 1
              /\ resp[r].body[1].content = <<>>
              /\ resp[r].body[1].images = <<>>

C7_Witness ==
    /\ Done(1) /\ Extracted(1) /\ route[1] = "/students/{id}"
    /\ Page(1).article /\ Page(1).fdesc = None
    /\ resp[1].kind = "crash"

\* the response of a handler served alone on the fetch outcomes outs
RECURSIVE Alone(_, _, _, _, _)
Alone(rt, a, outs, k, rs) ==
    LET ops == OpsOf(rt) IN
    IF k > Len(ops) THEN OnReturn(rt, rs)
    ELSE IF k > Len(outs) THEN NoResponse
    ELSE LET got == get_soup(outs[k])
             ext == extract(ops[k], got.val, a)
             ret == return_of(ops[k], ext.val)
         IN  IF got.st # "ok" THEN OnException(rt, got)
             ELSE IF ext.st # "ok" THEN OnException(rt, ext)
             ELSE IF ret.st # "ok" THEN OnException(rt, ret)
             ELSE Alone(rt, a, outs, k + 1, Append(rs, ret.val))

OutcomesOf(r) == [i \in 1..Len(Fetches(r)) |-> Fetches(r)[i].out]

GroupItemPairs(doc) ==
    {p \in (1..Len(doc)) \X (1..Len(doc)) :
        /\ IsGroup(doc[p[1]]) /\ IsItem(doc[p[2]])
        /\ p[1] \in Parents(doc, p[2])}

PairKey(doc, p) == p[1] * (Len(doc) + 1) + p[2]

RECURSIVE PairsInOrder(_, _)
PairsInOrder(doc, S) ==
    IF S = {} THEN <<>>
    ELSE LET m == CHOOSE p \in S : \A q \in S : PairKey(doc, p) <= PairKey(doc, q)
         IN  <<m>> \o PairsInOrder(doc, S \ {m})

\* C9: on success the students listing holds, in document order of the groups,
\* one record for every short-item beneath each short-items group: its length
\* is the sum over the groups of the items beneath each, and an item beneath
\* two groups appears twice.
C9_NoDeduplication ==
    \A r \in Reqs :
      (Done(r) /\ route[r] = "/students" /\ resp[r].status = 200) =>
        LET doc == Home(r)
            ps == PairsInOrder(doc, GroupItemPairs(doc))
        IN  /\ Len(resp[r].body) = Cardinality(GroupItemPairs(doc))
            /\ \A i \in 1..Len(ps) :
                 <<resp[r].body[i]>> = parse_student_card(doc[ps[i][2]].card).val

C9_Witness ==
    /\ Done(1) /\ route[1] = "/students" /\ resp[1].status = 200
    /\ Len(Home(1)) = 3
    /\ IsGroup(Home(1)[1]) /\ IsGroup(Home(1)[2]) /\ IsItem(Home(1)[3])
    /\ Parents(Home(1), 3) = {1, 2}
    /\ Len(resp[1].body) = 2 /\ resp[1].body[1] = resp[1].body[2]

HomeOrder == <<"students", "news", "freelancers">>

====
